---- MODULE Spec2Model ----
(***************************************************************************)
(* Device connectivity and telemetry pipeline of the sensor monitor app:   *)
(* the useSensorData hook (mode controller and history aggregator) and the *)
(* BleService singleton (connection manager and telemetry ingestion),      *)
(* wired together by the callbacks BluetoothScanScreen registers.          *)
(*                                                                         *)
(* Physical quantities are kept as scaled integers: voltage and current in *)
(* hundredths, temperature and ph in tenths, time in clock units.          *)
(***************************************************************************)
EXTENDS Integers, Sequences, FiniteSets, TLC

VARIABLES
    state,        \* useSensorData: the SensorState record held by useState
    intervalRef,  \* useSensorData: intervalRef.current
    intervals,    \* generator intervals created by setInterval and not cleared
    manager,      \* BleService: manager is set (initialize succeeded)
    callbacks,    \* BleService: callbacks are registered (setCallbacks)
    device,       \* BleService: the active device, or NULL
    isScanning,   \* BleService: isScanning
    gating,       \* startScan: calls suspended in checkPermissions
    scanTimers,   \* startScan: scan timeouts armed and not yet fired
    scanOpen,     \* transport: a device scan is open
    radioOn,      \* environment: the radio state is PoweredOn
    granted,      \* environment: the runtime permissions are granted
    devices,      \* BluetoothScanScreen: the peripherals its list shows
    connectPc,    \* connectToDevice: where the outstanding call is suspended
    disconnectPc, \* disconnect: where the outstanding call is suspended
    pollTimers,   \* startPollingData: poll intervals created and not cleared
    passes,       \* startPollingData: poll passes suspended in their awaits
    links,        \* transport: peripherals with an established connection
    observers,    \* transport: onDisconnected observers registered per device
    monitored,    \* transport: devices with a live characteristic monitor
    pendingDisc,  \* transport: disconnection events not yet delivered
    dropped,      \* transport: peripherals that dropped their link on their
                  \* own and were not connected since
    wire,         \* transport: the value the sensor characteristic holds
    recorded,     \* history: readings recorded since the last clearHistory
    lastOp,       \* history: the operation the last step performed
    afterSimulated, \* history: the last step directly followed
                  \* setConnectionMode("simulated")
    emitted,      \* history: the callback events the last step emitted
    teardown      \* history: what followed the last switch to Live that
                  \* stopped the simulation (see Teardown)

hookVars == <<state, intervalRef, intervals>>

bleVars == <<manager, callbacks, device, isScanning, connectPc, disconnectPc,
             pollTimers, passes>>

transportVars == <<links, observers, monitored, pendingDisc, dropped, wire>>

scanVars == <<gating, scanTimers, scanOpen, radioOn, granted>>

vars == <<hookVars, devices, bleVars, scanVars, transportVars,
          recorded, lastOp, afterSimulated, emitted, teardown>>

NULL == "null"

\* ------------------------------------------------------------------ bounds

MaxTimers == 2       \* interval handles the timer table can hold
MaxRecorded == 1     \* readings recorded between two clears, Spec
MaxObservers == 2    \* successful connects per peripheral in a run
MaxPollTimers == 1   \* poll interval handles the timer table can hold
MaxPasses == 2       \* poll passes in flight at once
MaxGating == 2       \* startScan calls suspended in the gate at once
MaxScanTimers == 2   \* scan timeouts pending at once
HistRecorded == 62   \* readings recorded between two clears, SpecHist

\* --------------------------------------------------------------- constants

MAX_HISTORY_POINTS == 60

DefaultSimName == "Simulated Device"

Modes == {"simulated", "real"}

TimerIds == 1..MaxTimers

\* startSimulation's optional argument: absent, empty, or a label
Labels == {NULL, "", "X"}

\* the names BluetoothScanScreen starts the simulation with
SimulatedDevices == {"X"}

\* peripherals in range; a peripheral's name is its id
Devices == {"A", "B"}

\* ------------------------------------------------------------- pure parts

Min(a, b) == IF a < b THEN a ELSE b

\* Array.prototype.slice(-n): the last n elements, all of them when shorter
SliceLast(s, n) ==
    IF Len(s) <= n THEN s ELSE SubSeq(s, Len(s) - n + 1, Len(s))

initialState ==
    [ isConnected |-> FALSE,
      currentReading |-> <<>>,       \* null; <<r>> holds the reading r
      voltageHistory |-> <<>>,
      currentHistory |-> <<>>,
      isSimulating |-> FALSE,
      connectionMode |-> "simulated",
      connectedDeviceName |-> NULL ]

setConnectionModeClearing(prev, mode) ==
    [prev EXCEPT !.connectionMode = mode,
                 !.isConnected = FALSE,
                 !.isSimulating = FALSE,
                 !.connectedDeviceName = NULL,
                 !.voltageHistory = <<>>,
                 !.currentHistory = <<>>,
                 !.currentReading = <<>>]

setConnectionModeUpdater(prev, mode) ==
    [prev EXCEPT !.connectionMode = mode,
                 !.isConnected = FALSE,
                 !.isSimulating = FALSE,
                 !.connectedDeviceName = NULL]

startSimulationUnnamed(prev, deviceName) ==
    [prev EXCEPT !.isConnected = TRUE,
                 !.isSimulating = TRUE,
                 !.connectedDeviceName = DefaultSimName]

\* deviceName || "Simulated Device": undefined and "" are both falsy
startSimulationUpdater(prev, deviceName) ==
    [prev EXCEPT !.isConnected = TRUE,
                 !.isSimulating = TRUE,
                 !.connectedDeviceName =
                     IF deviceName \in {NULL, ""} THEN DefaultSimName
                                                  ELSE deviceName]

stopSimulationUpdater(prev) ==
    [prev EXCEPT !.isConnected = FALSE,
                 !.isSimulating = FALSE,
                 !.connectedDeviceName = NULL]

connectToRealDeviceUpdater(prev, deviceName) ==
    [prev EXCEPT !.isConnected = TRUE,
                 !.isSimulating = FALSE,
                 !.connectedDeviceName = deviceName]

disconnectRealDeviceUpdater(prev) ==
    [prev EXCEPT !.isConnected = FALSE,
                 !.connectedDeviceName = NULL]

appendReadingUnbounded(prev, reading) ==
    [prev EXCEPT
       !.currentReading = <<reading>>,
       !.voltageHistory =
           Append(prev.voltageHistory,
                  [timestamp |-> reading.timestamp, value |-> reading.voltage]),
       !.currentHistory =
           Append(prev.currentHistory,
                  [timestamp |-> reading.timestamp, value |-> reading.current])]

\* Array.prototype.slice(0, n): the first n elements
SliceFirst(s, n) == IF Len(s) <= n THEN s ELSE SubSeq(s, 1, n)

appendReadingKeepOldest(prev, reading) ==
    [prev EXCEPT
       !.currentReading = <<reading>>,
       !.voltageHistory =
           SliceFirst(Append(prev.voltageHistory,
                             [timestamp |-> reading.timestamp,
                              value |-> reading.voltage]),
                      MAX_HISTORY_POINTS),
       !.currentHistory =
           SliceFirst(Append(prev.currentHistory,
                             [timestamp |-> reading.timestamp,
                              value |-> reading.current]),
                      MAX_HISTORY_POINTS)]

\* an append that puts the new point first
appendReadingPrepending(prev, reading) ==
    [prev EXCEPT
       !.currentReading = <<reading>>,
       !.voltageHistory =
           SliceLast(<<[timestamp |-> reading.timestamp,
                        value |-> reading.voltage]>> \o prev.voltageHistory,
                     MAX_HISTORY_POINTS),
       !.currentHistory =
           SliceLast(<<[timestamp |-> reading.timestamp,
                        value |-> reading.current]>> \o prev.currentHistory,
                     MAX_HISTORY_POINTS)]

\* an updater that appends to the voltage history alone
appendReadingVoltageOnly(prev, reading) ==
    [prev EXCEPT
       !.currentReading = <<reading>>,
       !.voltageHistory =
           SliceLast(Append(prev.voltageHistory,
                            [timestamp |-> reading.timestamp,
                             value |-> reading.voltage]),
                     MAX_HISTORY_POINTS)]

\* the state updater shared by updateRealReading and the generator tick
appendReadingUpdater(prev, reading) ==
    [prev EXCEPT
       !.currentReading = <<reading>>,
       !.voltageHistory =
           SliceLast(Append(prev.voltageHistory,
                            [timestamp |-> reading.timestamp,
                             value |-> reading.voltage]),
                     MAX_HISTORY_POINTS),
       !.currentHistory =
           SliceLast(Append(prev.currentHistory,
                            [timestamp |-> reading.timestamp,
                             value |-> reading.current]),
                     MAX_HISTORY_POINTS)]

toggleConnectionUpdater(prev) ==
    IF prev.isConnected
    THEN [prev EXCEPT !.isConnected = FALSE,
                      !.isSimulating = FALSE,
                      !.connectedDeviceName = NULL]
    ELSE [prev EXCEPT !.isConnected = TRUE,
                      !.isSimulating = (prev.connectionMode = "simulated"),
                      !.connectedDeviceName =
                          IF prev.connectionMode = "simulated"
                          THEN DefaultSimName ELSE NULL]

clearHistoryKeepSnapshot(prev) ==
    [prev EXCEPT !.voltageHistory = <<>>,
                 !.currentHistory = <<>>]

clearHistoryUpdater(prev) ==
    [prev EXCEPT !.voltageHistory = <<>>,
                 !.currentHistory = <<>>,
                 !.currentReading = <<>>]

\* setInterval hands out a handle that is not in use
FreshTimer(live) == CHOOSE t \in TimerIds \ live : \A u \in TimerIds \ live : t <= u

simulationEffectLeaky(wasSimulating, isSimulating, ref, live) ==
    IF wasSimulating = isSimulating
    THEN [ref |-> ref, live |-> live]
    ELSE IF isSimulating
    THEN LET t == FreshTimer(live)
         IN  [ref |-> t, live |-> live \cup {t}]
    ELSE [ref |-> 0, live |-> live]

\* an effect that runs on every commit, its body arming an interval over the
\* one the ref holds
simulationEffectRearming(wasSimulating, isSimulating, ref, live) ==
    IF isSimulating
    THEN LET kept == IF wasSimulating THEN live ELSE live \ {ref}
             t == IF TimerIds \ kept # {} THEN FreshTimer(kept) ELSE ref
         IN  [ref |-> t, live |-> kept \cup {t}]
    ELSE [ref |-> 0, live |-> live \ {ref}]

\* The effect keyed on state.isSimulating, run when a committed state changes
\* the flag: the previous run's cleanup first, then the effect body.
\* Result: the new intervalRef.current (0 for null) and the live intervals.
simulationEffect(wasSimulating, isSimulating, ref, live) ==
    IF wasSimulating = isSimulating
    THEN [ref |-> ref, live |-> live]
    ELSE IF isSimulating
    THEN LET t == FreshTimer(live)
         IN  [ref |-> t, live |-> live \cup {t}]
    ELSE [ref |-> 0, live |-> live \ {ref}]

\* ------------------------------------------------------- payload decoder

\* a string is the sequence of its characters
B64Chars ==
    << "A","B","C","D","E","F","G","H","I","J","K","L","M","N","O","P",
       "Q","R","S","T","U","V","W","X","Y","Z","a","b","c","d","e","f",
       "g","h","i","j","k","l","m","n","o","p","q","r","s","t","u","v",
       "w","x","y","z","0","1","2","3","4","5","6","7","8","9","+","/" >>

\* chars.indexOf(c): the position from 0, or -1
indexOf(c) ==
    IF \E i \in DOMAIN B64Chars : B64Chars[i] = c
    THEN (CHOOSE i \in DOMAIN B64Chars : B64Chars[i] = c) - 1
    ELSE -1

\* base64[i]: undefined outside the string
charAt(base64, i) ==
    IF i >= 0 /\ i < Len(base64) THEN base64[i + 1] ELSE "undefined"

\* a | b on the low eight bits
RECURSIVE BitOr(_, _)
BitOr(a, b) ==
    IF a = 0 THEN b
    ELSE IF b = 0 THEN a
    ELSE (IF a % 2 = 1 \/ b % 2 = 1 THEN 1 ELSE 0) + 2 * BitOr(a \div 2, b \div 2)

\* the store of a 32-bit value x | y into a Uint8Array element
Uint8Or(x, y) == BitOr(x % 256, y % 256)

\* bytes[p] = v; a store past the end of a typed array is dropped
Store(bytes, p, v) ==
    IF p < Len(bytes) THEN [bytes EXCEPT ![p + 1] = v] ELSE bytes

RECURSIVE decodeGroups(_, _, _, _)
decodeGroups(base64, i, p, bytes) ==
    IF i >= Len(base64) THEN bytes
    ELSE
      LET encoded1 == indexOf(charAt(base64, i))
          encoded2 == indexOf(charAt(base64, i + 1))
          encoded3 == indexOf(charAt(base64, i + 2))
          encoded4 == indexOf(charAt(base64, i + 3))
          third == encoded3 # -1 /\ charAt(base64, i + 2) # "="
          fourth == encoded4 # -1 /\ charAt(base64, i + 3) # "="
          w1 == Store(bytes, p, Uint8Or(encoded1 * 4, encoded2 \div 16))
          p1 == p + 1
          w2 == IF third
                THEN Store(w1, p1, Uint8Or((encoded2 % 16) * 16, encoded3 \div 4))
                ELSE w1
          p2 == IF third THEN p1 + 1 ELSE p1
          w3 == IF fourth
                THEN Store(w2, p2, Uint8Or((encoded3 % 4) * 64, encoded4))
                ELSE w2
          p3 == IF fourth THEN p2 + 1 ELSE p2
      IN  decodeGroups(base64, i + 4, p3, w3)

\* a byte count that takes no account of the padding
bufferQuartersUnpadded(base64) == 3 * Len(base64)

\* bufferLength, in quarters: length * 0.75 less one per trailing "="
bufferQuarters(base64) ==
    3 * Len(base64)
      - (IF charAt(base64, Len(base64) - 1) = "=" THEN 4 ELSE 0)
      - (IF charAt(base64, Len(base64) - 2) = "=" THEN 4 ELSE 0)

\* new Uint8Array(n) truncates n towards zero and throws below zero
decodeBase64(base64) ==
    LET q == bufferQuarters(base64)
        n == IF q >= 0 THEN q \div 4 ELSE 0 - ((0 - q) \div 4)
    IN  IF n < 0
        THEN <<300, 100, 370, 70>>
        ELSE decodeGroups(base64, 0, 0, [k \in 1..n |-> 0])

\* characteristic values on the wire: bytes 250 120 37 72, bytes 1 2, none
GoodValue == <<"+", "n", "g", "l", "S", "A", "=", "=">>
ShortValue == <<"A", "Q", "I", "=">>
Values == {GoodValue, ShortValue, <<>>}

\* a number stored into a byte of the characteristic
ToUint8(x) == x % 256

\* the transport hands a characteristic's bytes over as padded Base64
RECURSIVE encodeBase64(_)
encodeBase64(bytes) ==
    IF bytes = <<>> THEN <<>>
    ELSE LET n == Len(bytes)
             b0 == bytes[1]
             b1 == IF n >= 2 THEN bytes[2] ELSE 0
             b2 == IF n >= 3 THEN bytes[3] ELSE 0
         IN  << B64Chars[(b0 \div 4) + 1],
                B64Chars[(b0 % 4) * 16 + (b1 \div 16) + 1],
                IF n >= 2 THEN B64Chars[(b1 % 16) * 4 + (b2 \div 64) + 1] ELSE "=",
                IF n >= 3 THEN B64Chars[(b2 % 64) + 1] ELSE "=" >>
             \o encodeBase64(IF n > 3 THEN SubSeq(bytes, 4, n) ELSE <<>>)

\* characteristic contents of four bytes: each byte at either end of its
\* range, and the fields 250 120 365 72 as bytes
FourBytes ==
    [1..4 -> {0, 255}]
      \cup { <<250, 120, 37, 72>>,
             <<ToUint8(250), ToUint8(120), ToUint8(365), ToUint8(72)>> }

\* and of more than four: the same fields with bytes after them
MoreBytes ==
    { <<250, 120, 37, 72, 9>>, <<250, 120, 37, 72, 9, 200>>,
      <<250, 120, 37, 72, 255, 255, 255>>, <<0, 255, 0, 255, 1>> }

\* contents of fewer than four bytes
FewBytes == { <<>>, <<7>>, <<255>>, <<1, 2>>, <<255, 254>>, <<1, 2, 3>> }

\* values that are no Base64
Unparsable == { <<"!", "!", "!", "!">>, <<"=">>, <<"*", "*">> }

WireValues ==
    {encodeBase64(b) : b \in FourBytes \cup MoreBytes \cup FewBytes}
      \cup Unparsable

\* decodeBase64 over the values on the wire, decoded once
DecodedValues == [v \in Values \cup WireValues |-> decodeBase64(v)]

decoded(value) ==
    IF value \in DOMAIN DecodedValues THEN DecodedValues[value]
                                      ELSE decodeBase64(value)

\* data[k] / scale in scaled integers; data[k] is undefined past the end
NaN == -1

\* a field read one byte further on
fieldOffByOne(data, k) == IF k + 1 < Len(data) THEN data[k + 2] ELSE NaN

field(data, k) == IF k < Len(data) THEN data[k + 1] ELSE NaN

\* the reading handleCharacteristicData builds from a characteristic value
notifiedReading(value, ts) ==
    LET data == decoded(value)
    IN  [voltage |-> field(data, 0), current |-> field(data, 1),
         temperature |-> field(data, 2), ph |-> field(data, 3),
         timestamp |-> ts]

\* -------------------------------------------------- callbacks and events

ConnEvent(connected, deviceName) ==
    [type |-> "onConnectionStateChange", connected |-> connected,
     deviceName |-> deviceName]

DataEvent(reading) == [type |-> "onDataReceived", reading |-> reading]

ErrorEvent(message) == [type |-> "onError", message |-> message]

FoundEvent(id, name, rssi) ==
    [type |-> "onDeviceFound", id |-> id, name |-> name, rssi |-> rssi]

\* an onDeviceFound that replaces the whole entry of a known id
RECURSIVE FoundByReplacing(_, _)
FoundByReplacing(list, events) ==
    IF events = <<>> THEN list
    ELSE LET ev == Head(events)
         IN  FoundByReplacing(
               IF ev.type = "onDeviceFound"
               THEN {x \in list : x.id # ev.id}
                      \cup {[id |-> ev.id, name |-> ev.name, rssi |-> ev.rssi]}
               ELSE list,
               Tail(events))

\* the screen's onDeviceFound: the entry of a known id takes the new rssi
\* and keeps the rest, a new id is added at the end
RECURSIVE FoundBy(_, _)
FoundBy(list, events) ==
    IF events = <<>> THEN list
    ELSE LET ev == Head(events)
         IN  FoundBy(IF ev.type # "onDeviceFound" THEN list
                     ELSE IF \E d \in list : d.id = ev.id
                     THEN {IF d.id = ev.id THEN [d EXCEPT !.rssi = ev.rssi] ELSE d :
                             d \in list}
                     ELSE list \cup {[id |-> ev.id, name |-> ev.name,
                                     rssi |-> ev.rssi]},
                     Tail(events))

\* the callback bundle BluetoothScanScreen registers, as a state updater
screenCallbacks(prev, ev) ==
    CASE ev.type = "onConnectionStateChange" ->
           IF ev.connected /\ ev.deviceName \notin {NULL, ""}
           THEN connectToRealDeviceUpdater(prev, ev.deviceName)
           ELSE disconnectRealDeviceUpdater(prev)
      [] ev.type = "onDataReceived" -> appendReadingUpdater(prev, ev.reading)
      [] OTHER -> prev

RECURSIVE ApplyEvents(_, _)
ApplyEvents(prev, events) ==
    IF events = <<>> THEN prev
    ELSE ApplyEvents(screenCallbacks(prev, Head(events)), Tail(events))

RECURSIVE ReadingsOf(_)
ReadingsOf(events) ==
    IF events = <<>> THEN <<>>
    ELSE IF Head(events).type = "onDataReceived"
         THEN <<Head(events).reading>> \o ReadingsOf(Tail(events))
         ELSE ReadingsOf(Tail(events))

\* ------------------------------------------------------------ hook actions

Op(name, arg) == [name |-> name, arg |-> arg]

\* "pending": setConnectionMode("real") stopped a running simulation and the
\*            simulation was not started since;
\* "toggled": it was started since, by toggleConnection;
\* "none":    otherwise (in particular once startSimulation was called).
Teardown(op, wasSimulating, simulating) ==
    CASE op.name = "setConnectionMode" /\ op.arg = "real" /\ wasSimulating -> "pending"
      [] op.name = "startSimulation" -> "none"
      [] op.name = "toggleConnection" /\ teardown = "pending" /\ simulating -> "toggled"
      [] OTHER -> teardown

Note(op, events) ==
    /\ lastOp' = op
    /\ afterSimulated' = (lastOp = Op("setConnectionMode", "simulated"))
    /\ emitted' = events
    /\ teardown' = Teardown(op, state.isSimulating, state'.isSimulating)

\* setState(updater): commit the new state, then run the effect
Commit(new) ==
    /\ (new.isSimulating /\ ~state.isSimulating) => TimerIds \ intervals # {}
    /\ state' = new
    /\ LET e == simulationEffect(state.isSimulating, new.isSimulating,
                                 intervalRef, intervals)
       IN  /\ intervalRef' = e.ref
           /\ intervals' = e.live

\* this.callbacks?.onX(...) for each event of a service step, in order
Emit(op, events) ==
    /\ IF callbacks
       THEN /\ Commit(ApplyEvents(state, events))
            /\ devices' = FoundBy(devices, events)
            /\ recorded' = recorded \o ReadingsOf(events)
       ELSE UNCHANGED <<hookVars, devices, recorded>>
    /\ Note(op, IF callbacks THEN events ELSE <<>>)

setConnectionMode(mode) ==
    /\ Commit(setConnectionModeUpdater(state, mode))
    /\ Note(Op("setConnectionMode", mode), <<>>)
    /\ UNCHANGED <<devices, recorded, bleVars, scanVars, transportVars>>

startSimulation(deviceName) ==
    /\ Commit(startSimulationUpdater(state, deviceName))
    /\ Note(Op("startSimulation", deviceName), <<>>)
    /\ UNCHANGED <<devices, recorded, bleVars, scanVars, transportVars>>

stopSimulation ==
    /\ Commit(stopSimulationUpdater(state))
    /\ Note(Op("stopSimulation", NULL), <<>>)
    /\ UNCHANGED <<devices, recorded, bleVars, scanVars, transportVars>>

connectToRealDevice(deviceName) ==
    /\ Commit(connectToRealDeviceUpdater(state, deviceName))
    /\ Note(Op("connectToRealDevice", deviceName), <<>>)
    /\ UNCHANGED <<devices, recorded, bleVars, scanVars, transportVars>>

disconnectRealDevice ==
    /\ Commit(disconnectRealDeviceUpdater(state))
    /\ Note(Op("disconnectRealDevice", NULL), <<>>)
    /\ UNCHANGED <<devices, recorded, bleVars, scanVars, transportVars>>

updateRealReading(reading) ==
    /\ Commit(appendReadingUpdater(state, reading))
    /\ Note(Op("updateRealReading", NULL), <<>>)
    /\ recorded' = Append(recorded, reading)
    /\ UNCHANGED <<devices, bleVars, scanVars, transportVars>>

toggleConnection ==
    /\ Commit(toggleConnectionUpdater(state))
    /\ Note(Op("toggleConnection", NULL), <<>>)
    /\ UNCHANGED <<devices, recorded, bleVars, scanVars, transportVars>>

clearHistory ==
    /\ Commit(clearHistoryUpdater(state))
    /\ Note(Op("clearHistory", NULL), <<>>)
    /\ recorded' = <<>>
    /\ UNCHANGED <<devices, bleVars, scanVars, transportVars>>

\* the callback of a live generator interval: one synthetic reading
GeneratorTick(t, reading) ==
    /\ t \in intervals
    /\ Commit(appendReadingUpdater(state, reading))
    /\ Note(Op("generatorTick", NULL), <<>>)
    /\ recorded' = Append(recorded, reading)
    /\ UNCHANGED <<devices, bleVars, scanVars, transportVars>>

\* ------------------------------------------------------------ BleService

\* new Date(): the acquisition clock, one tick per reading recorded
now == Len(recorded)

Idle == [pc |-> "idle", dev |-> NULL]

\* device.name of a connected peripheral
NameOf(d) == d

\* passes counts the suspended passes per poll interval and target device
PassKinds == (1..MaxPollTimers) \X Devices

\* setInterval hands out a handle no interval or suspended pass still holds
FreePollIds ==
    { t \in 1..MaxPollTimers :
        t \notin pollTimers /\ \A d \in Devices : passes[<<t, d>>] = 0 }

FreshPollId == CHOOSE t \in FreePollIds : \A u \in FreePollIds : t <= u

RECURSIVE SumOver(_, _)
SumOver(f, S) ==
    IF S = {} THEN 0
    ELSE LET x == CHOOSE x \in S : TRUE IN f[x] + SumOver(f, S \ {x})

InFlight(bag) == SumOver(bag, PassKinds)

\* initialize(): the manager is created unless the library is unavailable
initialize(available) ==
    /\ manager' = (manager \/ available)
    /\ Note(Op("initialize", NULL), <<>>)
    /\ UNCHANGED <<hookVars, devices, recorded, scanVars, callbacks, device, isScanning,
                   connectPc, disconnectPc, pollTimers, passes,
                   transportVars>>

\* setCallbacks, called by BluetoothScanScreen when it mounts
setCallbacks ==
    /\ callbacks' = TRUE
    /\ Note(Op("setCallbacks", NULL), <<>>)
    /\ UNCHANGED <<hookVars, devices, recorded, scanVars, manager, device, isScanning,
                   connectPc, disconnectPc, pollTimers, passes,
                   transportVars>>

\* a stopScan that stops the transport scan and keeps the flag
stopScanKeepsFlag(mgr, scanning) == scanning

\* stopScan(): the value of isScanning it leaves
stopScan(mgr, scanning) == IF mgr /\ scanning THEN FALSE ELSE scanning

\* a stopScan that calls the transport whatever isScanning is
stopDeviceScanUnguarded(mgr, scanning) == mgr

\* stopScan(): whether it calls manager.stopDeviceScan()
stopDeviceScanIssued(mgr, scanning) == mgr /\ scanning

\* stopScan(): the transport scan it leaves
stopDeviceScan(mgr, scanning, open) ==
    IF stopDeviceScanIssued(mgr, scanning) THEN FALSE ELSE open

\* connectToDevice(deviceId) up to its first await: the transport connect
connectToDevice(deviceId) ==
    /\ connectPc = Idle
    /\ IF ~manager
       THEN UNCHANGED <<isScanning, scanOpen, connectPc>>
       ELSE /\ isScanning' = stopScan(manager, isScanning)
            /\ scanOpen' = stopDeviceScan(manager, isScanning, scanOpen)
            /\ connectPc' = [pc |-> "connecting", dev |-> deviceId]
    /\ Note(Op("connectToDevice", IF manager THEN NULL ELSE "false"), <<>>)
    /\ UNCHANGED <<hookVars, devices, recorded, gating, scanTimers, radioOn,
                   granted, manager, callbacks, device,
                   disconnectPc, pollTimers, passes, transportVars>>

\* manager.connectToDevice settles. Connected: this.device is set, the
\* onDisconnected observer registered, and service discovery awaited.
\* Rejected: the catch block reports the error.
connectSettled(ok) ==
    /\ connectPc.pc = "connecting"
    /\ ok => connectPc.dev \notin links /\ observers[connectPc.dev] < MaxObservers
    /\ IF ok
       THEN /\ links' = links \cup {connectPc.dev}
            /\ device' = connectPc.dev
            /\ observers' = [observers EXCEPT ![connectPc.dev] = @ + 1]
            /\ dropped' = dropped \ {connectPc.dev}
            /\ connectPc' = [connectPc EXCEPT !.pc = "discovering"]
            /\ Emit(Op("connectToDevice:connected", NULL), <<>>)
       ELSE /\ connectPc' = Idle
            /\ Emit(Op("connectToDevice:failed", NULL),
                    <<ErrorEvent("Connection failed")>>)
            /\ UNCHANGED <<links, device, observers, dropped>>
    /\ UNCHANGED <<scanVars, manager, callbacks, isScanning, disconnectPc,
                   pollTimers, passes, monitored, pendingDisc, wire>>

\* discoverAllServicesAndCharacteristics settles. Done: the connection is
\* announced and startDataNotifications subscribes, falling back to
\* startPollingData when the subscription call throws. this.device.name
\* throws into the catch block when this.device was cleared meanwhile.
discoverSettled(ok, subscribed) ==
    /\ connectPc.pc = "discovering"
    /\ ok => connectPc.dev \in links
    /\ connectPc' = Idle
    /\ IF ok /\ device # NULL
       THEN /\ Emit(Op("connectToDevice:announced", NULL),
                    <<ConnEvent(TRUE, NameOf(device))>>)
            /\ subscribed => device \in links
            /\ IF subscribed
               THEN /\ monitored' = monitored \cup {device}
                    /\ UNCHANGED pollTimers
               ELSE /\ FreePollIds # {}
                    /\ pollTimers' = pollTimers \cup {FreshPollId}
                    /\ UNCHANGED monitored
       ELSE /\ Emit(Op("connectToDevice:failed", NULL),
                    <<ErrorEvent("Connection failed")>>)
            /\ UNCHANGED <<monitored, pollTimers>>
    /\ UNCHANGED <<scanVars, manager, callbacks, device, isScanning, disconnectPc,
                   passes, links, observers, pendingDisc, dropped, wire>>

\* disconnect() up to its await of cancelConnection; with no active device
\* it runs to its end at once
disconnect ==
    /\ disconnectPc = Idle
    /\ IF device # NULL
       THEN /\ disconnectPc' = [pc |-> "cancelling", dev |-> device]
            /\ Emit(Op("disconnect", NULL), <<>>)
       ELSE /\ Emit(Op("disconnect", NULL), <<ConnEvent(FALSE, NULL)>>)
            /\ UNCHANGED disconnectPc
    /\ UNCHANGED <<scanVars, manager, callbacks, device, isScanning, connectPc,
                   pollTimers, passes, transportVars>>

\* a disconnect() that surfaces the rejection of cancelConnection
cancelSettledSurfacing(ok) ==
    IF ok THEN <<ConnEvent(FALSE, NULL)>>
    ELSE <<ErrorEvent("Disconnect failed")>>

\* what disconnect() emits once cancelConnection has settled
cancelSettledEvents(ok) == <<ConnEvent(FALSE, NULL)>>

\* cancelConnection settles, resolved or rejected (the rejection is logged):
\* the active device is cleared and the disconnect announced. A cancelled
\* link goes down, and the transport may report it to the observers.
cancelSettled(ok, reported) ==
    /\ disconnectPc.pc = "cancelling"
    /\ ok => disconnectPc.dev \in links
    /\ reported => ok
    /\ disconnectPc' = Idle
    /\ device' = NULL
    /\ IF ok
       THEN /\ links' = links \ {disconnectPc.dev}
            /\ monitored' = monitored \ {disconnectPc.dev}
            /\ pendingDisc' = IF reported THEN pendingDisc \cup {disconnectPc.dev}
                                          ELSE pendingDisc
       ELSE UNCHANGED <<links, monitored, pendingDisc>>
    /\ Emit(Op("disconnect:cancelled", IF ok THEN NULL ELSE "rejected"),
            cancelSettledEvents(ok))
    /\ UNCHANGED <<scanVars, manager, callbacks, isScanning, connectPc,
                   pollTimers, passes, observers, dropped, wire>>

\* the peripheral drops the link on its own
remoteDisconnect(d) ==
    /\ d \in links
    /\ links' = links \ {d}
    /\ monitored' = monitored \ {d}
    /\ pendingDisc' = pendingDisc \cup {d}
    /\ dropped' = dropped \cup {d}
    /\ Note(Op("remoteDisconnect", NULL), <<>>)
    /\ UNCHANGED <<hookVars, devices, recorded, scanVars, bleVars, observers,
                   wire>>

\* the transport's disconnection event for d reaches every observer that
\* connectToDevice registered for d: each clears this.device and announces
onDisconnected(d) ==
    /\ d \in pendingDisc
    /\ pendingDisc' = pendingDisc \ {d}
    /\ device' = IF observers[d] > 0 THEN NULL ELSE device
    /\ Emit(Op("onDisconnected", d),
            [k \in 1..observers[d] |-> ConnEvent(FALSE, NULL)])
    /\ UNCHANGED <<scanVars, manager, callbacks, isScanning, connectPc, disconnectPc,
                   pollTimers, passes, links, observers, monitored, dropped,
                   wire>>

\* handleCharacteristicData: the events a characteristic value produces
handleCharacteristicData(value) ==
    IF value = <<>> THEN <<>> ELSE <<DataEvent(notifiedReading(value, now))>>

\* the monitor callback of device d delivers a characteristic value
notification(d, value) ==
    /\ d \in monitored
    /\ Emit(Op("notification", NULL), handleCharacteristicData(value))
    /\ UNCHANGED <<bleVars, scanVars, transportVars>>

\* a monitor listener that reports the error it is called with
monitorListenerSurfacing(error, value) ==
    IF error THEN <<ErrorEvent("Notification error")>>
             ELSE handleCharacteristicData(value)

\* the monitor listener: an error is logged, a characteristic is handled
monitorListener(error, value) ==
    IF error THEN <<>> ELSE handleCharacteristicData(value)

\* the monitor of device d fails, when it is set up or later: the listener
\* is called with the error; the transport ends the monitor or keeps it
monitorError(d, ends) ==
    /\ d \in monitored
    /\ monitored' = IF ends THEN monitored \ {d} ELSE monitored
    /\ Emit(Op("monitorError", IF ends THEN "ended" ELSE NULL),
            monitorListener(TRUE, <<>>))
    /\ UNCHANGED <<bleVars, scanVars, links, observers, pendingDisc, dropped,
                   wire>>

\* the peripheral writes a new value into its sensor characteristic
characteristicWritten(value) ==
    /\ value # wire
    /\ wire' = value
    /\ Note(Op("characteristicWritten", NULL), <<>>)
    /\ UNCHANGED <<hookVars, devices, recorded, bleVars, scanVars, links,
                   observers, monitored, pendingDisc, dropped>>

\* the reading a poll pass builds from the bytes it read
polledReading(bytes, ts) ==
    [voltage |-> bytes[1], current |-> bytes[2],
     temperature |-> bytes[3], ph |-> bytes[4], timestamp |-> ts]

\* a poll pass over the readable characteristics: reads is what each read
\* gave, in order. The first value of four bytes or more is forwarded.
RECURSIVE pollReads(_, _)
pollReads(reads, ts) ==
    IF reads = <<>> THEN <<>>
    ELSE LET r == Head(reads)
             bytes == IF r.kind = "value" /\ r.value # <<>>
                      THEN decoded(r.value) ELSE <<>>
         IN  IF Len(bytes) >= 4
             THEN <<DataEvent(polledReading(bytes, ts))>>
             ELSE pollReads(Tail(reads), ts)

\* the events of a whole poll pass: the forwarded reading, or the error of
\* a pass that threw or found no data
pollPassEvents(result, ts) ==
    IF result.throws
    THEN <<ErrorEvent("Error reading from device")>>
    ELSE IF pollReads(result.reads, ts) # <<>>
    THEN pollReads(result.reads, ts)
    ELSE <<ErrorEvent("Unable to read sensor data from device")>>

\* whether the pass clears its interval
pollPassAborts(result, ts) ==
    result.throws \/ pollReads(result.reads, ts) = <<>>

\* a poll interval fires: it clears itself when there is no active device,
\* else it starts a pass against the active device
pollTick(t) ==
    /\ t \in pollTimers
    /\ IF device = NULL
       THEN /\ pollTimers' = pollTimers \ {t}
            /\ UNCHANGED passes
       ELSE /\ InFlight(passes) < MaxPasses
            /\ passes' = [passes EXCEPT ![<<t, device>>] = @ + 1]
            /\ UNCHANGED pollTimers
    /\ Note(Op("pollTick", NULL), <<>>)
    /\ UNCHANGED <<hookVars, devices, recorded, scanVars, manager, callbacks, device,
                   isScanning, connectPc, disconnectPc, transportVars>>

\* a suspended poll pass runs to its end
pollPass(p, result) ==
    /\ passes[p] > 0
    /\ passes' = [passes EXCEPT ![p] = @ - 1]
    /\ pollTimers' = IF pollPassAborts(result, now) THEN pollTimers \ {p[1]}
                                                   ELSE pollTimers
    /\ Emit(Op("pollPass", IF p[2] \in dropped THEN "dropped" ELSE NULL),
            pollPassEvents(result, now))
    /\ UNCHANGED <<scanVars, manager, callbacks, device, isScanning, connectPc,
                   disconnectPc, transportVars>>

\* ------------------------------------------- permission gate and scanning

\* how the environment answers one run of checkPermissions: the platform is
\* web; a permission is refused; the permission request throws; the radio
\* state read, or the read throwing
GateOutcomes == {"web", "denied", "requestThrows", "PoweredOff",
                 "Unauthorized", "Resetting", "stateThrows", "PoweredOn"}

\* the answers the environment can give in its current state
Possible(outcome) ==
    CASE outcome = "denied" -> ~granted
      [] outcome = "Unauthorized" -> ~granted
      [] outcome = "PoweredOn" -> granted /\ radioOn
      [] outcome = "PoweredOff" -> granted /\ ~radioOn
      [] outcome = "Resetting" -> granted /\ ~radioOn
      [] OTHER -> TRUE

Refused(message) == [ok |-> FALSE, events |-> <<ErrorEvent(message)>>]

Passed == [ok |-> TRUE, events |-> <<>>]

requestAndroidPermissions(outcome) ==
    CASE outcome = "denied" -> Refused("Bluetooth permissions denied")
      [] outcome = "requestThrows" -> Refused("Failed to request permissions")
      [] OTHER -> Passed

checkPermissions(mgr, outcome) ==
    IF outcome = "web" THEN Refused("Bluetooth is not supported on web")
    ELSE IF ~mgr THEN Refused("Bluetooth not initialized")
    ELSE IF ~requestAndroidPermissions(outcome).ok
    THEN requestAndroidPermissions(outcome)
    ELSE CASE outcome = "PoweredOn" -> Passed
           [] outcome = "PoweredOff" -> Refused("Please turn on Bluetooth")
           [] outcome = "Unauthorized" -> Refused("Bluetooth permission denied")
           [] outcome = "stateThrows" -> Refused("Failed to check Bluetooth state")
           [] OTHER -> Refused("Bluetooth state")

\* a startScan that arms no timeout
armTimeoutNever(timers) == timers

\* setTimeout(() => this.stopScan(), timeoutMs): the timeouts then pending
armTimeout(timers) == timers + 1

\* a sighting's rssi is a number of dBm below zero, or 0 for none
NoRssi == 0

\* device.rssi || -100
reportedRssi(rssi) == IF rssi = NoRssi THEN -100 ELSE rssi

\* advertisements in range: a named peripheral, one without a name, one
\* with an empty name
Sightings == { [id |-> "A", name |-> "A", rssi |-> -40],
               [id |-> "N", name |-> NULL, rssi |-> -40],
               [id |-> "E", name |-> "", rssi |-> -40] }

\* advertisements of a longer scan: A at three strengths, under a changed
\* name, and without a strength; a second peripheral; an unnamed one
ListSightings ==
    { [id |-> "A", name |-> "A", rssi |-> -40],
      [id |-> "A", name |-> "A", rssi |-> -70],
      [id |-> "A", name |-> "A2", rssi |-> -55],
      [id |-> "A", name |-> "A", rssi |-> NoRssi],
      [id |-> "B", name |-> "B", rssi |-> -60],
      [id |-> "N", name |-> NULL, rssi |-> -40] }

\* a scan listener that reports every sighting, unnamed ones under the
\* fallback name
scanCallbackUnfiltered(sighting) ==
    <<FoundEvent(sighting.id,
                 IF sighting.name \in {NULL, ""}
                 THEN "Unknown Device" ELSE sighting.name,
                 reportedRssi(sighting.rssi))>>

\* the scan listener on a sighting
scanCallback(sighting) ==
    IF sighting.name \notin {NULL, ""}
    THEN <<FoundEvent(sighting.id, sighting.name, reportedRssi(sighting.rssi))>>
    ELSE <<>>

\* startScan(timeoutMs) up to its await of checkPermissions; it returns at
\* once without a manager or while isScanning
startScan ==
    /\ IF ~manager \/ isScanning
       THEN UNCHANGED gating
       ELSE /\ gating < MaxGating
            /\ gating' = gating + 1
    /\ Note(Op("startScan", IF ~manager \/ isScanning THEN "returned" ELSE NULL),
            <<>>)
    /\ UNCHANGED <<hookVars, devices, recorded, bleVars, scanTimers, scanOpen,
                   radioOn, granted, transportVars>>

\* checkPermissions settles in a suspended startScan. Refused: the gate has
\* reported and the call returns. Passed: isScanning is set and the scan
\* opened with its timeout armed, or startDeviceScan throws and the catch
\* block reports. The transport opens a scan in place of the one it has.
gateSettled(outcome, started) ==
    /\ gating > 0
    /\ Possible(outcome)
    /\ gating' = gating - 1
    /\ LET gate == checkPermissions(manager, outcome)
       IN  IF ~gate.ok
           THEN /\ started
                /\ Emit(Op("startScan:refused", NULL), gate.events)
                /\ UNCHANGED <<isScanning, scanOpen, scanTimers>>
           ELSE IF started
           THEN /\ scanTimers < MaxScanTimers
                /\ isScanning' = TRUE
                /\ scanOpen' = TRUE
                /\ scanTimers' = armTimeout(scanTimers)
                /\ Emit(Op("startScan:scanning", NULL), <<>>)
           ELSE /\ isScanning' = FALSE
                /\ scanOpen' = FALSE
                /\ UNCHANGED scanTimers
                /\ Emit(Op("startScan:failed", NULL),
                        <<ErrorEvent("Failed to start scanning")>>)
    /\ UNCHANGED <<radioOn, granted, manager, callbacks, device, connectPc,
                   disconnectPc, pollTimers, passes, transportVars>>

\* a scan timeout fires: stopScan()
scanTimeout ==
    /\ scanTimers > 0
    /\ scanTimers' = scanTimers - 1
    /\ isScanning' = stopScan(manager, isScanning)
    /\ scanOpen' = stopDeviceScan(manager, isScanning, scanOpen)
    /\ Note(Op("scanTimeout", IF stopDeviceScanIssued(manager, isScanning)
                              THEN "stopDeviceScan" ELSE NULL), <<>>)
    /\ UNCHANGED <<hookVars, devices, recorded, gating, radioOn, granted,
                   manager, callbacks, device, connectPc, disconnectPc,
                   pollTimers, passes, transportVars>>

\* stopScan() called from outside
callStopScan ==
    /\ isScanning' = stopScan(manager, isScanning)
    /\ scanOpen' = stopDeviceScan(manager, isScanning, scanOpen)
    /\ Note(Op("stopScan", IF stopDeviceScanIssued(manager, isScanning)
                           THEN "stopDeviceScan" ELSE NULL), <<>>)
    /\ UNCHANGED <<hookVars, devices, recorded, gating, scanTimers, radioOn,
                   granted, manager, callbacks, device, connectPc,
                   disconnectPc, pollTimers, passes, transportVars>>

\* the open scan sights a peripheral
scanSighting(sighting) ==
    /\ scanOpen
    /\ Emit(Op("scanSighting", sighting.id), scanCallback(sighting))
    /\ UNCHANGED <<bleVars, scanVars, transportVars>>

\* the open scan reports an error: onError, then stopScan()
scanError ==
    /\ scanOpen
    /\ isScanning' = stopScan(manager, isScanning)
    /\ scanOpen' = stopDeviceScan(manager, isScanning, scanOpen)
    /\ Emit(Op("scanError", NULL), <<ErrorEvent("Scan error")>>)
    /\ UNCHANGED <<gating, scanTimers, radioOn, granted, manager, callbacks,
                   device, connectPc, disconnectPc, pollTimers, passes,
                   transportVars>>

\* the radio is switched, and the permissions granted or revoked, outside
radioSwitched ==
    /\ radioOn' = ~radioOn
    /\ Note(Op("radioSwitched", NULL), <<>>)
    /\ UNCHANGED <<hookVars, devices, recorded, bleVars, gating, scanTimers,
                   scanOpen, granted, transportVars>>

permissionsChanged ==
    /\ granted' = ~granted
    /\ Note(Op("permissionsChanged", NULL), <<>>)
    /\ UNCHANGED <<hookVars, devices, recorded, bleVars, gating, scanTimers,
                   scanOpen, radioOn, transportVars>>

\* ----------------------------------------------------------------- inputs

Reading(v, c, t, p, ts) ==
    [voltage |-> v, current |-> c, temperature |-> t, ph |-> p, timestamp |-> ts]

\* generateRandomReading: each field drawn from its range, stamped new Date()
GeneratedReadings ==
    { Reading(v, c, 370, 70, now) : v \in {300}, c \in {50} }

\* the k-th reading of a long run: neighbours differ in both tracked fields
HistReading(k) == Reading(300 + (k % 3) * 100, 50 + (k % 4) * 50, 370, 70, now)

ReadError == [kind |-> "error", value |-> <<>>]
ReadValue(v) == [kind |-> "value", value |-> v]

\* what a poll pass can meet on a peripheral whose link is up
PassResults ==
    { [throws |-> TRUE, reads |-> <<>>],
      [throws |-> FALSE, reads |-> <<>>],
      [throws |-> FALSE, reads |-> <<ReadError, ReadValue(GoodValue)>>],
      [throws |-> FALSE, reads |-> <<ReadValue(ShortValue)>>] }

\* and on one whose link is down: every transport call rejects
DeadPassResults ==
    { [throws |-> TRUE, reads |-> <<>>],
      [throws |-> FALSE, reads |-> <<ReadError>>] }

\* what a poll pass meets on a peripheral whose readable characteristic is
\* the sensor's: its value, with or without a failed read before it
WireReads(value) ==
    { [throws |-> FALSE, reads |-> <<ReadValue(value)>>],
      [throws |-> FALSE, reads |-> <<ReadError, ReadValue(value)>>] }

\* ------------------------------------------------------- specifications

Init ==
    /\ state = initialState
    /\ intervalRef = 0
    /\ intervals = {}
    /\ manager = FALSE
    /\ callbacks = FALSE
    /\ device = NULL
    /\ isScanning = FALSE
    /\ gating = 0
    /\ scanTimers = 0
    /\ scanOpen = FALSE
    /\ radioOn = TRUE
    /\ granted = TRUE
    /\ devices = {}
    /\ connectPc = [pc |-> "idle", dev |-> NULL]
    /\ disconnectPc = [pc |-> "idle", dev |-> NULL]
    /\ pollTimers = {}
    /\ passes = [p \in PassKinds |-> 0]
    /\ links = {}
    /\ observers = [d \in Devices |-> 0]
    /\ monitored = {}
    /\ pendingDisc = {}
    /\ dropped = {}
    /\ wire = <<>>
    /\ recorded = <<>>
    /\ lastOp = Op("init", NULL)
    /\ afterSimulated = FALSE
    /\ emitted = <<>>
    /\ teardown = "none"

\* the hook driven through its returned operations alone
NextHist ==
    \/ \E mode \in Modes : setConnectionMode(mode)
    \/ \E label \in Labels : startSimulation(label)
    \/ stopSimulation
    \/ \E name \in Devices : connectToRealDevice(name)
    \/ disconnectRealDevice
    \/ toggleConnection
    \/ clearHistory
    \/ Len(recorded) < HistRecorded /\ updateRealReading(HistReading(Len(recorded)))
    \/ Len(recorded) < HistRecorded
         /\ \E t \in intervals : GeneratorTick(t, HistReading(Len(recorded)))

SpecHist == Init /\ [][NextHist]_vars

\* an event that appends when it is delivered to the registered callbacks
Delivers(events) == callbacks /\ ReadingsOf(events) # <<>>

\* the scan screen initialises the service when it shows in Live mode
initializeBle(available) ==
    /\ state.connectionMode = "real"
    /\ initialize(available)

\* a press on a scanned peripheral: the list holds peripherals the service
\* reported to the registered callbacks during a Live scan
handleDevicePress(deviceId) ==
    /\ callbacks
    /\ state.connectionMode = "real"
    /\ connectToDevice(deviceId)

\* the Disconnect button, shown while the hook reports a connection
handleDisconnect ==
    /\ state.isConnected
    /\ IF state.connectionMode = "simulated" THEN stopSimulation ELSE disconnect

\* the application with the peripherals D in range: the screens' handlers,
\* the service's continuations and timers, and the transport.  A press on a
\* simulated device calls startSimulation from a 1500 ms timer that a mode
\* switch does not cancel, so the call can come in either mode.
NextWith(D) ==
    \/ \E mode \in Modes : setConnectionMode(mode)
    \/ \E label \in SimulatedDevices : startSimulation(label)
    \/ handleDisconnect
    \/ clearHistory
    \/ Len(recorded) < MaxRecorded
         /\ \E t \in intervals : \E r \in GeneratedReadings : GeneratorTick(t, r)
    \/ \E available \in BOOLEAN : initializeBle(available)
    \/ setCallbacks
    \/ \E d \in D : handleDevicePress(d)
    \/ \E ok \in BOOLEAN : connectSettled(ok)
    \/ \E ok, subscribed \in BOOLEAN : discoverSettled(ok, subscribed)
    \/ \E ok, reported \in BOOLEAN : cancelSettled(ok, reported)
    \/ \E d \in D : remoteDisconnect(d)
    \/ \E d \in D : onDisconnected(d)
    \/ \E d \in D : \E v \in Values :
         /\ Delivers(handleCharacteristicData(v)) => Len(recorded) < MaxRecorded
         /\ notification(d, v)
    \/ \E d \in D : \E ends \in BOOLEAN : monitorError(d, ends)
    \/ \E t \in pollTimers : pollTick(t)
    \/ \E p \in PassKinds :
         \E result \in IF p[2] \in links THEN PassResults ELSE DeadPassResults :
           /\ Delivers(pollPassEvents(result, now)) => Len(recorded) < MaxRecorded
           /\ pollPass(p, result)

\* one peripheral in range
Next == NextWith({"A"})

Spec == Init /\ [][Next]_vars

\* the service driven through its public methods, with its continuations,
\* timers, the transport and the environment
NextScan ==
    \/ \E available \in BOOLEAN : initialize(available)
    \/ setCallbacks
    \/ startScan
    \/ \E outcome \in GateOutcomes : \E started \in BOOLEAN :
         gateSettled(outcome, started)
    \/ scanTimeout
    \/ callStopScan
    \/ \E sighting \in Sightings : scanSighting(sighting)
    \/ scanError
    \/ connectToDevice("A")
    \/ \E ok \in BOOLEAN : connectSettled(ok)
    \/ \E ok, subscribed \in BOOLEAN : discoverSettled(ok, subscribed)
    \/ radioSwitched
    \/ permissionsChanged

SpecScan == Init /\ [][NextScan]_vars

\* timers fire
SpecScanFair == SpecScan /\ WF_vars(scanTimeout)

\* one connection to A, whose sensor characteristic takes the values of
\* WireValues and reaches the service by notification or by poll reads.
\* Decoding reads nothing of the history, so the characteristic is rewritten
\* while the history is empty.
NextDecode ==
    \/ \E available \in BOOLEAN : initialize(available)
    \/ setCallbacks
    \/ connectToDevice("A")
    \/ \E ok \in BOOLEAN : connectSettled(ok)
    \/ \E ok, subscribed \in BOOLEAN : discoverSettled(ok, subscribed)
    \/ /\ "A" \in links /\ recorded = <<>>
       /\ \E value \in WireValues : characteristicWritten(value)
    \/ /\ Delivers(handleCharacteristicData(wire)) => Len(recorded) < MaxRecorded
       /\ notification("A", wire)
    \/ \E ends \in BOOLEAN : monitorError("A", ends)
    \/ \E t \in pollTimers : pollTick(t)
    \/ \E p \in PassKinds : \E result \in WireReads(wire) :
         /\ Delivers(pollPassEvents(result, now)) => Len(recorded) < MaxRecorded
         /\ pollPass(p, result)
    \/ clearHistory

SpecDecode == Init /\ [][NextDecode]_vars

\* one scan after another over the peripherals of ListSightings, heard by
\* the screen
NextList ==
    \/ \E available \in BOOLEAN : initialize(available)
    \/ setCallbacks
    \/ startScan
    \/ \E outcome \in GateOutcomes : \E started \in BOOLEAN :
         gateSettled(outcome, started)
    \/ scanTimeout
    \/ callStopScan
    \/ \E sighting \in ListSightings : scanSighting(sighting)

SpecList == Init /\ [][NextList]_vars

\* the service with two peripherals in range: connections made and ended
\* through its public methods, the links dropped by the peripherals, and
\* the transport's disconnection events
NextTwo ==
    \/ \E available \in BOOLEAN : initialize(available)
    \/ setCallbacks
    \/ \E d \in Devices : connectToDevice(d)
    \/ \E ok \in BOOLEAN : connectSettled(ok)
    \/ \E ok, subscribed \in BOOLEAN : discoverSettled(ok, subscribed)
    \/ disconnect
    \/ \E ok, reported \in BOOLEAN : cancelSettled(ok, reported)
    \/ \E d \in Devices : remoteDisconnect(d)
    \/ \E d \in Devices : onDisconnected(d)

SpecTwo == Init /\ [][NextTwo]_vars

\* ------------------------------------------------------------- properties

VoltagePoint(r) == [timestamp |-> r.timestamp, value |-> r.voltage]
CurrentPoint(r) == [timestamp |-> r.timestamp, value |-> r.current]

AppendOps == {"updateRealReading", "generatorTick"}

\* C1: voltageHistory and currentHistory never hold more than 60 points, in
\* any reachable state, the state right after an append included.
C1_HistoryBounded ==
    /\ Len(state.voltageHistory) <= 60
    /\ Len(state.currentHistory) <= 60

\* an append has just evicted: more than 60 readings recorded, 60 kept
C1_Witness ==
    /\ lastOp.name \in AppendOps
    /\ Len(recorded) > 60
    /\ Len(state.voltageHistory) = 60
    /\ Len(state.currentHistory) = 60

\* C2: with n readings recorded since the last clearHistory, each history is
\* the last min(n, 60) of them in arrival order, the newest one last.
C2_LastSixtyInOrder ==
    LET n == Len(recorded)
        k == Min(n, 60)
    IN  /\ Len(state.voltageHistory) = k
        /\ Len(state.currentHistory) = k
        /\ \A i \in 1..k :
             /\ state.voltageHistory[i] = VoltagePoint(recorded[n - k + i])
             /\ state.currentHistory[i] = CurrentPoint(recorded[n - k + i])

\* two readings were evicted and the newest one is the last element
C2_Witness ==
    /\ Len(recorded) = 62
    /\ lastOp.name \in AppendOps
    /\ state.voltageHistory[1] = VoltagePoint(recorded[3])
    /\ state.voltageHistory[1] # VoltagePoint(recorded[1])
    /\ state.voltageHistory[60] = VoltagePoint(recorded[62])

\* a step of setConnectionMode("real") taken while the simulation runs
SwitchToLiveWhileSimulating ==
    /\ state.isSimulating
    /\ lastOp'.name = "setConnectionMode"
    /\ lastOp'.arg = "real"

\* C5 as claimed: setConnectionMode("real") while simulating leaves
\* isSimulating, isConnected false and connectedDeviceName null with the
\* generator interval cleared, and no generator tick appends a reading from
\* then on until startSimulation is called.
C5_NoTickUntilStartSimulation ==
    [][ /\ SwitchToLiveWhileSimulating =>
             /\ ~state'.isSimulating
             /\ ~state'.isConnected
             /\ state'.connectedDeviceName = NULL
             /\ intervals' = {}
             /\ intervalRef' = 0
        /\ lastOp'.name = "generatorTick" => teardown = "none" ]_vars

\* C5 as it holds: the same, with the generator silent until the simulation
\* is started again, by startSimulation or by toggleConnection in
\* Simulated mode.
C5_NoTickUntilRestart ==
    [][ /\ SwitchToLiveWhileSimulating =>
             /\ ~state'.isSimulating
             /\ ~state'.isConnected
             /\ state'.connectedDeviceName = NULL
             /\ intervals' = {}
             /\ intervalRef' = 0
        /\ lastOp'.name = "generatorTick" => teardown # "pending" ]_vars

\* the switch to Live has just stopped a simulation that had produced data
C5_Witness ==
    /\ lastOp = Op("setConnectionMode", "real")
    /\ teardown = "pending"
    /\ state.voltageHistory # <<>>
    /\ ~state.isSimulating
    /\ intervals = {}

\* C6: a startSimulation(label) step taken right after
\* setConnectionMode("simulated") ends connected and simulating, named by
\* the label, or "Simulated Device" when no label is given.
C6_SimulatedThenStart ==
    [][ ( /\ lastOp = Op("setConnectionMode", "simulated")
          /\ lastOp'.name = "startSimulation" ) =>
        ( /\ state'.isConnected
          /\ state'.isSimulating
          /\ state'.connectionMode = "simulated"
          /\ lastOp'.arg \notin {NULL, ""} =>
                 state'.connectedDeviceName = lastOp'.arg
          /\ lastOp'.arg = NULL =>
                 state'.connectedDeviceName = "Simulated Device" ) ]_vars

C6_Witness ==
    /\ afterSimulated
    /\ lastOp = Op("startSimulation", "X")
    /\ state.connectionMode = "simulated"
    /\ state.isConnected
    /\ state.isSimulating
    /\ state.connectedDeviceName = "X"

FrameOps == {"setConnectionMode", "startSimulation", "stopSimulation",
             "connectToRealDevice", "disconnectRealDevice"}

\* C7: setConnectionMode, startSimulation, stopSimulation,
\* connectToRealDevice and disconnectRealDevice leave voltageHistory,
\* currentHistory and currentReading as they were, and a history or the
\* snapshot becomes empty only by clearHistory.
C7_HistoryFrame ==
    [][ /\ lastOp'.name \in FrameOps =>
             /\ state'.voltageHistory = state.voltageHistory
             /\ state'.currentHistory = state.currentHistory
             /\ state'.currentReading = state.currentReading
        /\ ( \/ state.voltageHistory # <<>> /\ state'.voltageHistory = <<>>
             \/ state.currentHistory # <<>> /\ state'.currentHistory = <<>>
             \/ state.currentReading # <<>> /\ state'.currentReading = <<>> )
           => lastOp'.name = "clearHistory" ]_vars

\* a mode switch has just happened and the recorded data is still there
C7_Witness ==
    /\ lastOp.name = "setConnectionMode"
    /\ state.voltageHistory # <<>>
    /\ state.currentHistory # <<>>
    /\ state.currentReading # <<>>

\* C8: clearHistory, from any reachable state, empties both histories and
\* the snapshot and leaves the rest of the state alone; applying it to its
\* own result changes nothing.
C8_ClearIdempotent ==
    LET once == clearHistoryUpdater(state)
    IN  /\ once.voltageHistory = <<>>
        /\ once.currentHistory = <<>>
        /\ once.currentReading = <<>>
        /\ once.isConnected = state.isConnected
        /\ once.isSimulating = state.isSimulating
        /\ once.connectionMode = state.connectionMode
        /\ once.connectedDeviceName = state.connectedDeviceName
        /\ clearHistoryUpdater(once) = once
        /\ lastOp.name = "clearHistory" => state = once

\* clearHistory has just run while the simulation was running and connected
C8_Witness ==
    /\ lastOp.name = "clearHistory"
    /\ state.isSimulating
    /\ state.isConnected
    /\ state.voltageHistory = <<>>
    /\ state.currentReading = <<>>

\* ------------------------------------------- properties of the application

Appends == Len(recorded') > Len(recorded)

\* C3: a reading is appended only in a state where the hook is connected
\* (Live mode, with a live device) or simulating; none is appended while the
\* hook state is disconnected.
C3_AppendOnlyWhileConnected ==
    [][ Appends => ( state.isConnected \/ state.isSimulating ) ]_vars

\* C4: switching the mode to Simulated while a live connection is active
\* disconnects it: the step clears the service's active device, or at least
\* has its disconnect under way.
C4_SimulatedDisconnectsLive ==
    [][ ( /\ lastOp' = Op("setConnectionMode", "simulated")
          /\ state.connectionMode = "real"
          /\ state.isConnected
          /\ ~state.isSimulating
          /\ device # NULL ) =>
        ( device' = NULL \/ disconnectPc'.pc = "cancelling" ) ]_vars

HasError(events) == \E i \in DOMAIN events : events[i].type = "onError"

\* C9: an unsolicited disconnect of the active peripheral clears the active
\* device and is announced by exactly one onConnectionStateChange(false),
\* and no onError is emitted for it, by the observer or by a poll pass that
\* was running against the peripheral.
C9_RemoteDisconnectOneEvent ==
    [][ /\ ( /\ lastOp'.name = "onDisconnected"
             /\ lastOp'.arg \in dropped
             /\ device = lastOp'.arg
             /\ callbacks ) =>
           ( /\ device' = NULL
             /\ emitted' = <<ConnEvent(FALSE, NULL)>> )
        /\ lastOp' = Op("pollPass", "dropped") => ~HasError(emitted') ]_vars

\* C10: disconnect() with no active device is a no-op: the service state
\* and the consumer's state stay as they are and no onError is emitted.
C10_DisconnectIdleNoOp ==
    [][ ( lastOp'.name = "disconnect" /\ device = NULL ) =>
        ( /\ UNCHANGED <<bleVars, transportVars>>
          /\ state' = state
          /\ ~HasError(emitted') ) ]_vars

\* C11: disconnect() with an active device suspends in cancelConnection
\* without emitting, and when cancelConnection settles, resolved or
\* rejected, the call ends with the active device cleared and exactly
\* onConnectionStateChange(false) emitted, no onError.
C11_DisconnectAlwaysClears ==
    [][ /\ ( lastOp'.name = "disconnect" /\ device # NULL ) =>
             ( disconnectPc'.pc = "cancelling" /\ emitted' = <<>> )
        /\ lastOp'.name = "disconnect:cancelled" =>
             ( /\ device' = NULL
               /\ disconnectPc' = Idle
               /\ emitted' = <<ConnEvent(FALSE, NULL)>>
               /\ ~HasError(emitted') ) ]_vars

\* cancelConnection has just rejected in a disconnect() of a live connection
C11_Witness ==
    /\ lastOp = Op("disconnect:cancelled", "rejected")
    /\ device = NULL
    /\ emitted = <<ConnEvent(FALSE, NULL)>>
    /\ ~state.isConnected

HasConnected(events) ==
    \E i \in DOMAIN events :
        events[i].type = "onConnectionStateChange" /\ events[i].connected

\* C12: a connect attempt that fails, at the transport connect of a service
\* with no active device or at the enumeration that follows a successful
\* transport connect, ends with no active device, without
\* onConnectionStateChange(true) and without a monitor or a poll interval
\* started.
C12_FailedConnectLeavesIdle ==
    [][ ( /\ lastOp'.name = "connectToDevice:failed"
          /\ connectPc.pc = "discovering" \/ device = NULL ) =>
        ( /\ device' = NULL
          /\ ~HasConnected(emitted')
          /\ monitored' = monitored
          /\ pollTimers' = pollTimers ) ]_vars

RECURSIVE Errors(_)
Errors(events) ==
    IF events = <<>> THEN 0
    ELSE (IF Head(events).type = "onError" THEN 1 ELSE 0) + Errors(Tail(events))

\* C13: with callbacks registered, a connectToDevice call that returns
\* false, and a startScan call that the permission and radio gate refuses,
\* has emitted exactly one onError when it returns.
C13_FailureSurfacedOnce ==
    [][ ( /\ callbacks
          /\ \/ lastOp' = Op("connectToDevice", "false")
             \/ lastOp'.name = "connectToDevice:failed"
             \/ lastOp'.name = "startScan:refused" ) =>
        Errors(emitted') = 1 ]_vars

HasFound(events) == \E i \in DOMAIN events : events[i].type = "onDeviceFound"

\* C14: a scan ends without an explicit stop: while the transport scan is
\* open a timeout is pending, every scan in progress comes to an end, the
\* timeout leaves the transport scan stopped and isScanning false, and
\* onDeviceFound is emitted only by a sighting of a scan that is open.
C14_ScanEndsByTimeout ==
    /\ [](scanOpen => scanTimers > 0)
    /\ (scanOpen \/ isScanning) ~> (~scanOpen /\ ~isScanning)
    /\ [][ /\ lastOp'.name = "scanTimeout" => ( ~scanOpen' /\ ~isScanning' )
           /\ HasFound(emitted') => scanOpen ]_vars

\* the timeout has just stopped a scan that had found no device
C14_Witness ==
    /\ lastOp = Op("scanTimeout", "stopDeviceScan")
    /\ callbacks
    /\ devices = {}
    /\ ~scanOpen
    /\ ~isScanning

\* C15: a transport scan is opened, and a transport connection attempted,
\* only by a call whose own run of the gate passed: at that step the
\* permissions are granted and the radio is PoweredOn.
C15_GateBeforeRadio ==
    [][ /\ lastOp'.name = "startScan:scanning" => ( granted /\ radioOn )
        /\ ( connectPc.pc = "idle" /\ connectPc'.pc = "connecting" ) =>
             ( granted /\ radioOn ) ]_vars

\* C16: at most one scan timeout is pending at any time, and a startScan
\* call made while a scan is in progress, or while an earlier call is still
\* in the gate, changes nothing.
C16_OneScanAtATime ==
    /\ [](scanTimers <= 1)
    /\ [][ ( lastOp'.name = "startScan" /\ (isScanning \/ gating > 0) ) =>
           UNCHANGED <<bleVars, scanVars>> ]_vars

\* C17: a scan error reported by the transport yields exactly one onError
\* and leaves the transport scan stopped and isScanning false; and after
\* each way a scan ends (error, timeout, stopScan, failure to start)
\* isScanning is false.
C17_ScanErrorEndsScan ==
    [][ /\ ( lastOp'.name = "scanError" /\ callbacks ) =>
             ( /\ emitted' = <<ErrorEvent("Scan error")>>
               /\ ~scanOpen'
               /\ ~isScanning' )
        /\ lastOp'.name \in {"scanError", "scanTimeout", "stopScan",
                             "startScan:failed"} => ~isScanning' ]_vars

C17_Witness ==
    /\ lastOp.name = "scanError"
    /\ callbacks
    /\ Errors(emitted) = 1
    /\ ~scanOpen /\ ~isScanning

\* C18: connectToDevice cancels discovery: when the transport connect is
\* issued the scan is stopped and isScanning is false, and no scan is in
\* progress while that connect attempt is in flight.
C18_ConnectCancelsDiscovery ==
    /\ [][ ( connectPc.pc = "idle" /\ connectPc'.pc = "connecting" ) =>
           ( ~scanOpen' /\ ~isScanning' ) ]_vars
    /\ [](connectPc.pc = "connecting" => ( ~scanOpen /\ ~isScanning ))

\* C19: stopScan() with no scan in progress changes no state and issues no
\* transport call, and a stopScan() that follows a stopScan() changes
\* nothing: two calls in a row leave what one leaves.
C19_StopScanIdempotent ==
    /\ [][ lastOp'.name = "stopScan" =>
           /\ ~isScanning =>
                ( /\ UNCHANGED <<hookVars, devices, recorded, bleVars,
                                 scanVars, transportVars>>
                  /\ lastOp'.arg = NULL )
           /\ lastOp.name = "stopScan" =>
                UNCHANGED <<hookVars, devices, recorded, bleVars, scanVars,
                            transportVars>> ]_vars
    /\ [](\A mgr, scanning \in BOOLEAN :
            /\ stopScan(mgr, stopScan(mgr, scanning)) = stopScan(mgr, scanning)
            /\ ~stopDeviceScanIssued(mgr, stopScan(mgr, scanning)))

\* a stopScan() with no scan in progress, after one that stopped a scan
C19_Witness ==
    /\ lastOp = Op("stopScan", NULL)
    /\ manager
    /\ ~isScanning
    /\ scanTimers > 0

Unnamed == {sighting.id : sighting \in {x \in Sightings : x.name \in {NULL, ""}}}

\* C20: every device reported through onDeviceFound has a non-empty name;
\* a sighting without a name emits no onDeviceFound and changes nothing, and
\* no unnamed peripheral is in the consumer's device list.
C20_OnlyNamedDevices ==
    /\ [](\A x \in devices : x.id \notin Unnamed /\ x.name \notin {NULL, ""})
    /\ [][ /\ \A i \in DOMAIN emitted' :
                emitted'[i].type = "onDeviceFound" =>
                  ( emitted'[i].name \notin {NULL, ""}
                    /\ emitted'[i].id \notin Unnamed )
           /\ ( lastOp'.name = "scanSighting" /\ lastOp'.arg \in Unnamed ) =>
                ( emitted' = <<>> /\ UNCHANGED <<hookVars, devices>> ) ]_vars

\* an unnamed sighting has just been heard by a registered consumer that
\* already lists the named peripheral
C20_Witness ==
    /\ lastOp.name = "scanSighting"
    /\ lastOp.arg \in Unnamed
    /\ callbacks
    /\ scanOpen
    /\ devices = {[id |-> "A", name |-> "A", rssi |-> -40]}

\* the entry the device list holds for id
ListedAs(list, id) == CHOOSE d \in list : d.id = id

Ending == {p \in PassKinds : passes'[p] < passes[p]}

\* C22: a poll pass that reports an error reports one and leaves its
\* interval cancelled, and a pass that ends right after an aborting pass,
\* its interval cancelled, delivers no reading and reports no second error.
C22_PollAbortIsFinal ==
    [][ /\ ( lastOp'.name = "pollPass" /\ HasError(emitted') ) =>
             ( /\ Errors(emitted') = 1
               /\ \A p \in Ending : p[1] \notin pollTimers' )
        /\ ( lastOp.name = "pollPass" /\ HasError(emitted) ) =>
             \A p \in Ending : p[1] \notin pollTimers => emitted' = <<>> ]_vars

\* C23: once there is no active device no poll interval is pending; no
\* reading is delivered while there is none; and no poll interval of an
\* earlier connection is pending when a later connection is made.
C23_IngestionStopsWithConnection ==
    /\ [](device = NULL => pollTimers = {})
    /\ [][ReadingsOf(emitted') # <<>> => device # NULL]_vars
    /\ [][ ( lastOp'.name = "connectToDevice:connected" ) =>
             pollTimers = {} ]_vars

\* values that resolve to one, two or three bytes, or are no Base64
Malformed == {encodeBase64(b) : b \in FewBytes \ {<<>>}} \cup Unparsable

Fallback(ts) == Reading(300, 100, 370, 70, ts)

\* C24: a value of fewer than four bytes, or one that is no Base64, is
\* forwarded as the fallback reading 3.00, 1.00, 37.0, 7.0, whether it comes
\* by notification or by a poll read.
C24_FallbackReading ==
    [][ ( /\ callbacks
          /\ wire \in Malformed
          /\ lastOp'.name \in {"notification", "pollPass"} ) =>
        emitted' = <<DataEvent(Fallback(now))>> ]_vars

\* the reading that carries the first four of bytes
Carried(bytes, ts) == Reading(bytes[1], bytes[2], bytes[3], bytes[4], ts)

\* C25: whatever four or more bytes the characteristic holds, the reading
\* forwarded for them carries the first four, byte for byte, by notification
\* and by poll read alike.
C25_FieldsAreFirstFourBytes ==
    [][ \A bytes \in FourBytes \cup MoreBytes :
          ( /\ callbacks
            /\ wire = encodeBase64(bytes)
            /\ lastOp'.name \in {"notification", "pollPass"} ) =>
          emitted' = <<DataEvent(Carried(bytes, now))>> ]_vars

\* a value of seven bytes was read by a poll pass and forwarded
C25_Witness ==
    /\ wire = encodeBase64(<<250, 120, 37, 72, 255, 255, 255>>)
    /\ lastOp.name = "pollPass"
    /\ emitted = <<DataEvent(Reading(250, 120, 37, 72, 0))>>
    /\ state.currentReading = <<Reading(250, 120, 37, 72, 0)>>

\* the four bytes that hold the fields 250, 120, 365, 72
ExampleBytes == <<ToUint8(250), ToUint8(120), ToUint8(365), ToUint8(72)>>

\* C26: the four-byte value that carries the fields 250, 120, 365, 72 is
\* forwarded as voltage 2.50, current 1.20, temperature 36.5, ph 7.2.
C26_DecodesExample ==
    [][ ( /\ callbacks
          /\ wire = encodeBase64(ExampleBytes)
          /\ lastOp'.name \in {"notification", "pollPass"} ) =>
        emitted' = <<DataEvent(Reading(250, 120, 365, 72, now))>> ]_vars

\* C27: a malformed or too short value, notified or read by a poll pass,
\* leaves the acquisition as it was: the monitor stays and the poll interval
\* stays pending.
C27_MalformedNeverHalts ==
    [][ ( /\ wire \in Malformed
          /\ lastOp'.name \in {"notification", "pollPass"} ) =>
        ( monitored' = monitored /\ pollTimers' = pollTimers ) ]_vars

\* the timestamps of a history never step back
InTimeOrder(history) ==
    \A i, j \in DOMAIN history :
      i < j => history[i].timestamp <= history[j].timestamp

\* C28: in every reachable state the timestamps of voltageHistory and of
\* currentHistory are non-decreasing in arrival order, whatever the
\* interleaving of live readings, generator ticks, clears and evictions.
C28_TimestampsInOrder ==
    /\ InTimeOrder(state.voltageHistory)
    /\ InTimeOrder(state.currentHistory)

\* a generator tick has just evicted the oldest point: 61 readings
\* recorded, the last 60 kept
C28_Witness ==
    /\ lastOp.name = "generatorTick"
    /\ Len(recorded) = 61
    /\ Len(state.currentHistory) = 60
    /\ state.currentHistory[1].timestamp = 1
    /\ state.currentHistory[60].timestamp = 60
    /\ state.isConnected /\ state.isSimulating

\* C29: a connection is announced with exactly one acquisition started, the
\* monitor or the poll interval; a monitor that fails leaves polling started
\* or an error reported; and the monitor and a poll interval are never both
\* active for the active device.
C29_OneStrategyPerConnection ==
    /\ [][ lastOp'.name = "connectToDevice:announced" =>
           ( (device \in monitored') # (pollTimers' # pollTimers) ) ]_vars
    /\ [][ lastOp'.name = "monitorError" =>
           ( pollTimers' # {} \/ HasError(emitted') ) ]_vars
    /\ [](device # NULL => ~(device \in monitored /\ pollTimers # {}))

\* C30: a poll pass that found no readable characteristic, or no value it
\* could decode into a reading, leaves its interval pending for the next
\* tick.
C30_PollRetries ==
    [][ ( /\ lastOp'.name = "pollPass"
          /\ emitted' = <<ErrorEvent("Unable to read sensor data from device")>> ) =>
        \A p \in Ending : p[1] \in pollTimers => p[1] \in pollTimers' ]_vars

\* C31: an error handed to the monitor listener emits nothing, changes
\* nothing in the service or the hook (no polling started, the active device
\* kept) and subscribes nothing anew; a value notified right after it is
\* decoded and forwarded as ever.
C31_NotificationErrorIsLocal ==
    [][ /\ lastOp'.name = "monitorError" =>
             ( /\ emitted' = <<>>
               /\ monitored' \subseteq monitored
               /\ UNCHANGED <<hookVars, devices, recorded, bleVars>> )
        /\ \A bytes \in FourBytes :
             ( /\ lastOp.name = "monitorError"
               /\ lastOp'.name = "notification"
               /\ callbacks
               /\ wire = encodeBase64(bytes) ) =>
             emitted' = <<DataEvent(Carried(bytes, now))>> ]_vars

\* the listener was called with an error during a live connection whose
\* monitor goes on, a four-byte value waiting to be notified
C31_Witness ==
    /\ lastOp = Op("monitorError", NULL)
    /\ callbacks
    /\ device = "A"
    /\ "A" \in monitored
    /\ state.isConnected
    /\ wire = GoodValue

\* C32: the timeout of a scan is cancelled when the scan ends before it
\* fires: a stopScan or a scan error that closes the open scan leaves no
\* timeout pending, and a timeout that closes a scan is the only one
\* pending, the one armed by that scan.
C32_TimeoutDiesWithItsScan ==
    [][ /\ ( /\ lastOp'.name \in {"stopScan", "scanError"}
             /\ scanOpen
             /\ ~scanOpen' ) => scanTimers' = 0
        /\ ( /\ lastOp'.name = "scanTimeout"
             /\ scanOpen
             /\ ~scanOpen' ) => scanTimers = 1 ]_vars

\* C33: decodeBase64 inverts the standard encoding: for every byte sequence
\* of length 0 to 6 the decoding of its padded Base64 text is that very
\* sequence, of the same length, each element a byte.
UpToSix == {b \in FewBytes \cup FourBytes \cup MoreBytes : Len(b) <= 6}

C33_DecodeInvertsEncode ==
    \A b \in UpToSix :
        wire = encodeBase64(b) =>
            /\ decoded(wire) = b
            /\ Len(decoded(wire)) = Len(b)
            /\ \A k \in 1..Len(decoded(wire)) : decoded(wire)[k] \in 0..255

\* a one-byte value, written with two padding marks, has been notified
C33_Witness ==
    /\ wire = encodeBase64(<<255>>)
    /\ lastOp.name = "notification"

HasDisconnected(events) ==
    \E i \in DOMAIN events :
        events[i].type = "onConnectionStateChange" /\ ~events[i].connected

\* C34: a disconnection event of a peripheral connected earlier, reaching
\* its observer while another peripheral is the active device on a live
\* link, leaves the active device as it is and announces no disconnection.
C34_StaleObserverHarmless ==
    [][ \A d \in Devices :
          ( /\ lastOp'.name = "onDisconnected"
            /\ lastOp'.arg = d
            /\ device \notin {NULL, d}
            /\ device \in links ) =>
          ( /\ device' = device
            /\ ~HasDisconnected(emitted') ) ]_vars

\* C35: in Live mode with no simulation running, whenever no connectToDevice
\* and no disconnect call is under way, the hook reports a connection
\* exactly when the service holds an active device.
C35_HookAgreesWithService ==
    ( /\ state.connectionMode = "real"
      /\ ~state.isSimulating
      /\ connectPc = Idle
      /\ disconnectPc = Idle ) =>
    ( state.isConnected <=> device # NULL )

\* C36: the hook simulates only while it reports a connection.
C36_SimulatingImpliesConnected ==
    state.isSimulating => state.isConnected

\* C37: the hook reports a connection exactly when it names a connected
\* device.
C37_ConnectedIffNamed ==
    state.isConnected <=> state.connectedDeviceName # NULL

\* C38: the two histories have the same length and the same timestamps
\* point by point; right after clearHistory both are empty and
\* currentReading is null; currentReading is null while nothing has been
\* recorded since the last clearHistory and the reading recorded last
\* otherwise.
C38_HistoriesInStep ==
    /\ Len(state.voltageHistory) = Len(state.currentHistory)
    /\ \A k \in 1..Len(state.voltageHistory) :
         state.voltageHistory[k].timestamp = state.currentHistory[k].timestamp
    /\ lastOp.name = "clearHistory" =>
         ( /\ state.voltageHistory = <<>>
           /\ state.currentHistory = <<>>
           /\ state.currentReading = <<>> )
    /\ state.currentReading =
         IF recorded = <<>> THEN <<>> ELSE <<recorded[Len(recorded)]>>

\* both histories are full and have evicted their first point; the reading
\* recorded last is the current one
C38_Witness ==
    /\ lastOp.name \in AppendOps
    /\ Len(recorded) = MAX_HISTORY_POINTS + 1
    /\ Len(state.voltageHistory) = MAX_HISTORY_POINTS
    /\ Len(state.currentHistory) = MAX_HISTORY_POINTS
    /\ state.voltageHistory[1].timestamp = recorded[2].timestamp
    /\ state.currentReading = <<recorded[Len(recorded)]>>

\* C39: at most one generator interval is live, and one is live exactly
\* while isSimulating; startSimulation during a simulation leaves the
\* interval as it is; stopSimulation, a toggleConnection that disconnects
\* and a switch of mode leave none.
C39_OneGeneratorTimer ==
    /\ [](Cardinality(intervals) <= 1)
    /\ [](intervals # {} <=> state.isSimulating)
    /\ [][ ( state.isSimulating /\ lastOp'.name = "startSimulation" ) =>
           ( intervals' = intervals /\ intervalRef' = intervalRef ) ]_vars
    /\ [][ ( \/ lastOp'.name \in {"stopSimulation", "setConnectionMode"}
             \/ lastOp'.name = "toggleConnection" /\ state.isConnected ) =>
           intervals' = {} ]_vars

\* startSimulation has just run after readings were recorded: one interval
\* is live, the one the ref holds
C39_Witness ==
    /\ lastOp = Op("startSimulation", NULL)
    /\ state.isSimulating
    /\ state.connectedDeviceName = DefaultSimName
    /\ Cardinality(intervals) = 1
    /\ intervalRef \in intervals
    /\ recorded # <<>>

====
